---- MODULE Spec2Model ----
(***************************************************************************)
(* A model of pypheature: Segment construction and validation              *)
(* (segment.py), the diacritic registry and Diacritic.apply_to             *)
(* (diacritic.py), Nphthong (nphthong.py) and FeatureProcessor.process     *)
(* (process.py).                                                           *)
(*                                                                         *)
(* Feature values True / False / None are written "+" / "-" / "0", the     *)
(* signs check_features and the feature spreadsheet use.  A string of the  *)
(* program is a sequence of codepoints; a codepoint is named by its letter *)
(* ("a", "t") or by its number ("U0325").  The outcome of a call that can  *)
(* raise is the name of the exception, or "ok".                            *)
(***************************************************************************)
EXTENDS Integers, Sequences, FiniteSets, TLC

\* ------------------------------------------------------------------------
\* Bounds of the model
\* ------------------------------------------------------------------------

\* Longest diacritics list a Segment of the segment-level specification gets.
MaxDiacritics == 2

\* Longest literal input string given to FeatureProcessor.process.
MaxLen == 3

\* ------------------------------------------------------------------------
\* Feature values (segment.py: Feature, TernaryFeature, BinaryFeature)
\* ------------------------------------------------------------------------

\* The 28 feature fields of the Segment dataclass, in field order.
FeatureOrder ==
    << "syllabic", "consonantal", "approximant", "sonorant", "continuant",
       "delayed_release", "trill", "tap", "dorsal", "front", "back", "high",
       "low", "tense", "round", "long", "overlong", "nasal", "coronal",
       "anterior", "distributed", "strident", "lateral", "labial",
       "labiodental", "voice", "spread_glottis", "constricted_glottis" >>

FeatureNames == { FeatureOrder[k] : k \in 1..Len(FeatureOrder) }

\* Fields annotated TernaryFeature; every other feature is a BinaryFeature.
TernaryFeatures ==
    { "delayed_release", "front", "back", "high", "low", "tense",
      "anterior", "distributed", "strident" }

\* Feature.allowed_values of the field's type.
allowed_values(name) ==
    IF name \in TernaryFeatures THEN {"+", "-", "0"} ELSE {"+", "-"}

\* Feature.__init__ on a raw value: the assert on allowed_values.
FeatureInitOk(name, raw) == raw \in allowed_values(name)

\* Mutant of FeatureEq: no check of `other` against the allowed values.
FeatureEq_unchecked(name, value, other) ==
    IF value = other THEN "True" ELSE "False"

\* Feature.__eq__(other): TypeError when `other` is not an allowed value of
\* the feature's type, otherwise whether the value is `other`.
FeatureEq(name, value, other) ==
    IF other \notin allowed_values(name) THEN "TypeError"
    ELSE IF value = other THEN "True" ELSE "False"

\* ------------------------------------------------------------------------
\* Segment.check_features
\* ------------------------------------------------------------------------

\* sign2value of check_features.
sign2value == [ sg \in {"+", "-", "0"} |-> sg ]

\* Attributes of a Segment that getattr finds and that are no Feature: the
\* two other dataclass fields and the methods (those a caller names here).
OtherAttributes == { "base", "diacritics", "is_vowel", "check_features" }

\* check_features(fv) from entry k on: fv is a sequence of <<sign, name>>.
\* getattr fails on an unknown name (AttributeError), sign2value on an
\* unknown sign (KeyError), the comparison on a value the feature's type
\* does not allow (TypeError); the first mismatch returns False, and a
\* string, a list or a method differs from True, False and None.
RECURSIVE check_features_from(_, _, _)
check_features_from(seg, fv, k) ==
    IF k > Len(fv) THEN "True"
    ELSE LET sign == fv[k][1]
             name == fv[k][2]
         IN  IF name \notin FeatureNames \cup OtherAttributes THEN "AttributeError"
             ELSE IF sign \notin DOMAIN sign2value THEN "KeyError"
             ELSE IF name \in OtherAttributes THEN "False"
             ELSE LET eq == FeatureEq(name, seg[name], sign2value[sign])
                  IN  IF eq = "TypeError" THEN "TypeError"
                      ELSE IF eq = "False" THEN "False"
                      ELSE check_features_from(seg, fv, k + 1)

check_features(seg, fv) == check_features_from(seg, fv, 1)

\* check_features as the is_* bodies use it: a boolean.
cf(seg, fv) == check_features(seg, fv) = "True"

\* ------------------------------------------------------------------------
\* Classification predicates (segment.py).  The raw_* operators are the
\* undecorated functions that natural_class registers in _natural_classes;
\* the is_* operators are what the class exposes after decoration.
\* ------------------------------------------------------------------------

GlideExceptions == { <<"U028D">>, <<"U0266">>, <<"h">> }

is_glide(seg) ==
    IF seg.base \in GlideExceptions THEN FALSE
    ELSE cf(seg, << <<"-", "syllabic">>, <<"-", "consonantal">> >>)

is_liquid(seg) == cf(seg, << <<"+", "consonantal">>, <<"+", "approximant">> >>)

is_nasal(seg) == cf(seg, << <<"-", "approximant">>, <<"+", "sonorant">> >>)

is_obstruent(seg) == cf(seg, << <<"-", "sonorant">> >>)

is_vowel(seg) ==
    /\ cf(seg, << <<"+", "syllabic">> >>)
    /\ ~ (is_glide(seg) \/ is_liquid(seg) \/ is_nasal(seg) \/ is_obstruent(seg))

\* Mutant of raw_stop: the delayed_release entry is left out of the list.
raw_stop_continuant_only(seg) == cf(seg, << <<"-", "continuant">> >>)

raw_stop(seg) == cf(seg, << <<"-", "continuant">>, <<"-", "delayed_release">> >>)
raw_affricate(seg) == cf(seg, << <<"-", "continuant">>, <<"+", "delayed_release">> >>)
raw_fricative(seg) == cf(seg, << <<"+", "continuant">>, <<"+", "delayed_release">> >>)

raw_front(seg) == cf(seg, << <<"+", "front">>, <<"-", "back">> >>)
raw_central(seg) == cf(seg, << <<"-", "front">>, <<"-", "back">> >>)
raw_back(seg) == cf(seg, << <<"-", "front">>, <<"+", "back">> >>)

raw_upper_high_vowel(seg) == cf(seg, << <<"+", "high">>, <<"-", "low">>, <<"+", "tense">> >>)
raw_lower_high_vowel(seg) == cf(seg, << <<"+", "high">>, <<"-", "low">>, <<"-", "tense">> >>)
raw_upper_mid_vowel(seg) == cf(seg, << <<"-", "high">>, <<"-", "low">>, <<"+", "tense">> >>)
raw_lower_mid_vowel(seg) == cf(seg, << <<"-", "high">>, <<"-", "low">>, <<"-", "tense">> >>)
raw_low_vowel(seg) == cf(seg, << <<"-", "high">>, <<"+", "low">> >>)

is_short(seg) == cf(seg, << <<"-", "long">> >>)
is_long(seg) == cf(seg, << <<"+", "long">>, <<"-", "overlong">> >>)
is_overlong(seg) == cf(seg, << <<"+", "overlong">> >>)

is_coronal(seg) == cf(seg, << <<"+", "coronal">> >>)

raw_lamino_dental(seg) == cf(seg, << <<"+", "anterior">>, <<"+", "distributed">> >>)
raw_apico_alveolar(seg) == cf(seg, << <<"+", "anterior">>, <<"-", "distributed">> >>)
raw_palato_alveolar(seg) == cf(seg, << <<"-", "anterior">>, <<"+", "distributed">> >>)
raw_retroflex(seg) == cf(seg, << <<"-", "anterior">>, <<"-", "distributed">> >>)

is_dorsal(seg) == cf(seg, << <<"+", "dorsal">> >>)

is_spread_glottis(seg) ==
    cf(seg, << <<"+", "spread_glottis">>, <<"-", "constricted_glottis">> >>)
is_constricted_glottis(seg) ==
    cf(seg, << <<"-", "spread_glottis">>, <<"+", "constricted_glottis">> >>)
is_normal_glottis(seg) ==
    cf(seg, << <<"-", "spread_glottis">>, <<"-", "constricted_glottis">> >>)

\* natural_class(...).wrapped: False when the partition's condition fails.
is_stop(seg) == is_obstruent(seg) /\ raw_stop(seg)
is_affricate(seg) == is_obstruent(seg) /\ raw_affricate(seg)
is_fricative(seg) == is_obstruent(seg) /\ raw_fricative(seg)
is_front(seg) == is_vowel(seg) /\ raw_front(seg)
is_central(seg) == is_vowel(seg) /\ raw_central(seg)
is_back(seg) == is_vowel(seg) /\ raw_back(seg)
is_upper_high_vowel(seg) == is_vowel(seg) /\ raw_upper_high_vowel(seg)
is_lower_high_vowel(seg) == is_vowel(seg) /\ raw_lower_high_vowel(seg)
is_upper_mid_vowel(seg) == is_vowel(seg) /\ raw_upper_mid_vowel(seg)
is_lower_mid_vowel(seg) == is_vowel(seg) /\ raw_lower_mid_vowel(seg)
is_low_vowel(seg) == is_vowel(seg) /\ raw_low_vowel(seg)
is_lamino_dental(seg) == is_coronal(seg) /\ raw_lamino_dental(seg)
is_apico_alveolar(seg) == is_coronal(seg) /\ raw_apico_alveolar(seg)
is_palato_alveolar(seg) == is_coronal(seg) /\ raw_palato_alveolar(seg)
is_retroflex(seg) == is_coronal(seg) /\ raw_retroflex(seg)

BoolStr(b) == IF b THEN "True" ELSE "False"

\* gen_condition(cond_func)(func): raises ConditionNotMet when the condition
\* is false (when it is true, for reverse_condition), else calls func.
gen_condition(cond, result) ==
    IF ~ cond THEN "ConditionNotMet" ELSE result

is_trill(seg) == gen_condition(is_liquid(seg), BoolStr(cf(seg, << <<"+", "trill">> >>)))
is_tap(seg) == gen_condition(is_liquid(seg), BoolStr(cf(seg, << <<"+", "tap">> >>)))
is_round(seg) == gen_condition(is_vowel(seg), BoolStr(cf(seg, << <<"+", "round">> >>)))
is_nasalized(seg) == gen_condition(is_vowel(seg), BoolStr(cf(seg, << <<"+", "nasal">> >>)))

\* compose(reverse_condition(is_vowel), gen_condition(is_dorsal)): the vowel
\* test is the outer wrapper, the dorsal test the inner one.
dorsal_consonant(seg, result) ==
    gen_condition(~ is_vowel(seg), gen_condition(is_dorsal(seg), result))

is_fronted_velar(seg) ==
    dorsal_consonant(seg, BoolStr(cf(seg,
        << <<"+", "high">>, <<"-", "low">>, <<"+", "front">>, <<"-", "back">> >>)))
is_central_velar(seg) ==
    dorsal_consonant(seg, BoolStr(cf(seg,
        << <<"+", "high">>, <<"-", "low">>, <<"-", "front">>, <<"-", "back">> >>)))
is_back_velar(seg) ==
    dorsal_consonant(seg, BoolStr(cf(seg,
        << <<"+", "high">>, <<"-", "low">>, <<"-", "front">>, <<"+", "back">> >>)))
is_uvular(seg) ==
    dorsal_consonant(seg, BoolStr(cf(seg,
        << <<"-", "high">>, <<"-", "low">>, <<"-", "front">>, <<"+", "back">> >>)))
is_pharyngeal(seg) ==
    dorsal_consonant(seg, BoolStr(cf(seg,
        << <<"-", "high">>, <<"+", "low">>, <<"-", "front">>, <<"+", "back">> >>)))

\* ------------------------------------------------------------------------
\* Segment construction: the dataclass __init__ and __post_init__
\* ------------------------------------------------------------------------

\* sum(belongs.values()) over a sequence of booleans.
RECURSIVE SumTrue(_)
SumTrue(bs) ==
    IF bs = <<>> THEN 0
    ELSE (IF Head(bs) THEN 1 ELSE 0) + SumTrue(Tail(bs))

\* Mutant of PartitionOrder: the two vowel partitions are not registered
\* for the construction-time check.
PartitionOrder_no_vowel_partitions ==
    << "sonority", "obstruent", "duration", "coronal", "glottal_width" >>

\* _exclusivity_checks, in registration order.
PartitionOrder ==
    << "sonority", "obstruent", "backness", "height", "duration", "coronal",
       "glottal_width" >>

\* The `condition` each partition was registered with (none: always true).
PartitionCondition(parent_name, seg) ==
    CASE parent_name = "obstruent" -> is_obstruent(seg)
      [] parent_name = "backness" -> is_vowel(seg)
      [] parent_name = "height" -> is_vowel(seg)
      [] parent_name = "coronal" -> is_coronal(seg)
      [] OTHER -> TRUE

\* _natural_classes[parent_name]: the undecorated functions, applied to seg.
Belongs(parent_name, seg) ==
    CASE parent_name = "sonority" ->
           << is_vowel(seg), is_glide(seg), is_liquid(seg), is_nasal(seg),
              is_obstruent(seg) >>
      [] parent_name = "obstruent" ->
           << raw_stop(seg), raw_affricate(seg), raw_fricative(seg) >>
      [] parent_name = "backness" ->
           << raw_front(seg), raw_central(seg), raw_back(seg) >>
      [] parent_name = "height" ->
           << raw_upper_high_vowel(seg), raw_lower_high_vowel(seg),
              raw_upper_mid_vowel(seg), raw_lower_mid_vowel(seg),
              raw_low_vowel(seg) >>
      [] parent_name = "duration" ->
           << is_short(seg), is_long(seg), is_overlong(seg) >>
      [] parent_name = "coronal" ->
           << raw_lamino_dental(seg), raw_apico_alveolar(seg),
              raw_palato_alveolar(seg), raw_retroflex(seg) >>
      [] parent_name = "glottal_width" ->
           << is_spread_glottis(seg), is_constricted_glottis(seg),
              is_normal_glottis(seg) >>

\* Mutant of check_exclusivity: only an empty membership is refused.
check_exclusivity_at_least_one(parent_name, seg) ==
    IF ~ PartitionCondition(parent_name, seg) THEN TRUE
    ELSE SumTrue(Belongs(parent_name, seg)) >= 1

\* check_exclusivity of one partition: TRUE when it does not raise.
check_exclusivity(parent_name, seg) ==
    IF ~ PartitionCondition(parent_name, seg) THEN TRUE
    ELSE SumTrue(Belongs(parent_name, seg)) = 1

\* Mutant of FeatureLevelChecks: the coronal rule asks for all three coronal
\* features to be specified (all for any) before it raises.
FeatureLevelChecks_all_coronal(seg) ==
    /\ ~ (~ is_obstruent(seg) /\ seg.delayed_release # "0")
    /\ ~ (~ is_coronal(seg)
          /\ \A f \in {"anterior", "distributed", "strident"} : seg[f] # "0")
    /\ ~ (~ is_dorsal(seg)
          /\ \E f \in {"high", "low", "back", "front", "tense"} : seg[f] # "0")
    /\ ~ (is_low_vowel(seg) /\ seg.tense # "0" /\ seg.diacritics = <<>>)
    /\ ~ (seg.tense # "0"
          /\ ~ (is_glide(seg) \/ is_vowel(seg) \/ seg.base = <<"U028D">>))

\* The feature-level checks of __post_init__: TRUE when none raises.
FeatureLevelChecks(seg) ==
    /\ ~ (~ is_obstruent(seg) /\ seg.delayed_release # "0")
    /\ ~ (~ is_coronal(seg)
          /\ \E f \in {"anterior", "distributed", "strident"} : seg[f] # "0")
    /\ ~ (~ is_dorsal(seg)
          /\ \E f \in {"high", "low", "back", "front", "tense"} : seg[f] # "0")
    /\ ~ (is_low_vowel(seg) /\ seg.tense # "0" /\ seg.diacritics = <<>>)
    /\ ~ (seg.tense # "0"
          /\ ~ (is_glide(seg) \/ is_vowel(seg) \/ seg.base = <<"U028D">>))

\* The loop over _exclusivity_checks at the end of __post_init__.
ExclusivityChecks(seg) ==
    \A k \in 1..Len(PartitionOrder) : check_exclusivity(PartitionOrder[k], seg)

\* Segment(**kwargs): the exception __post_init__ raises, or "ok".
post_init(kwargs) ==
    IF \E name \in FeatureNames : ~ FeatureInitOk(name, kwargs[name])
    THEN "AssertionError"
    ELSE IF ~ FeatureLevelChecks(kwargs) THEN "InvalidSegment"
    ELSE IF ~ ExclusivityChecks(kwargs) THEN "ExclusivityFailure"
    ELSE "ok"

\* Segment.__str__: base + ''.join(diacritics).
RECURSIVE Join(_)
Join(strs) == IF strs = <<>> THEN <<>> ELSE Head(strs) \o Join(Tail(strs))

Str(seg) == seg.base \o Join(seg.diacritics)

\* ------------------------------------------------------------------------
\* Diacritics (diacritic.py)
\* ------------------------------------------------------------------------

\* DiacriticMetaclass.__registry: surface form -> class, as the class
\* statements fill it (cls.ipa first, then cls.alternatives).
Registry ==
    ( <<"U0329">> :> "Syllabic" ) @@ ( <<"U0330">> :> "Creaky" ) @@
    ( <<"U0324">> :> "Breathy" ) @@ ( <<"U0325">> :> "Voiceless" ) @@
    ( <<"U030A">> :> "Voiceless" ) @@ ( <<"U032C">> :> "Voiced" ) @@
    ( <<"U0320">> :> "Retracted" ) @@ ( <<"U032A">> :> "Dental" ) @@
    ( <<"U031F">> :> "Advanced" ) @@ ( <<"U02D0">> :> "Long" ) @@
    ( <<"U02B0">> :> "Aspirated" ) @@ ( <<"U02B2">> :> "Palatalized" ) @@
    ( <<"U02B7">> :> "Labialized" ) @@ ( <<"U02E0">> :> "Velarized" ) @@
    ( <<"U02E4">> :> "Pharyngealized" ) @@ ( <<"U0303">> :> "Nasalized" ) @@
    ( <<"U02BD">> :> "Rhoticity" ) @@ ( <<"U02BC">> :> "Ejective" ) @@
    ( <<"U02C0">> :> "Glottalized" ) @@ ( <<"U0361">> :> "UpTieBar" ) @@
    ( <<"U035C">> :> "DownTieBar" ) @@ ( <<"U032F">> :> "NonSyllabic" ) @@
    ( <<"U033B">> :> "Laminal" ) @@ ( <<"U0302">> :> "FallingTone" ) @@
    ( <<"U030C">> :> "RisingTone" ) @@ ( <<"U0301">> :> "HighTone" ) @@
    ( <<"U0304">> :> "MidTone" ) @@ ( <<"U0300">> :> "LowTone" ) @@
    ( <<"U031E">> :> "Lowered" ) @@ ( <<"U031D">> :> "Raised" ) @@
    ( <<"U02D1">> :> "HalfLong" ) @@ ( <<"U0306">> :> "ExtraShort" ) @@
    ( <<"U031A">> :> "Unreleased" ) @@ ( <<"U0308">> :> "Centralized" ) @@
    ( <<"U0339">> :> "MoreRounded" ) @@ ( <<"U031C">> :> "LessRounded" )

\* The classes decorated with @ignored.
IgnoredClasses ==
    { "FallingTone", "RisingTone", "HighTone", "MidTone", "LowTone",
      "Lowered", "Raised", "HalfLong", "ExtraShort", "Unreleased",
      "Centralized", "MoreRounded", "LessRounded" }

DiacriticClasses == { Registry[form] : form \in DOMAIN Registry }

\* cls.ipa: the canonical surface form of a class.
ipa(cls) ==
    CASE cls = "Voiceless" -> <<"U0325">>
      [] OTHER -> CHOOSE form \in DOMAIN Registry : Registry[form] = cls

\* The empty dict.
EmptyDelta == [ name \in {} |-> "+" ]

\* cls.changes: the feature delta of a class (Retracted has none: it
\* overrides apply_to).
changes(cls) ==
    CASE cls = "Syllabic" -> [ syllabic |-> "+" ]
      [] cls = "Creaky" -> [ spread_glottis |-> "-", constricted_glottis |-> "+" ]
      [] cls = "Breathy" -> [ spread_glottis |-> "+", constricted_glottis |-> "-" ]
      [] cls = "Voiceless" -> [ voice |-> "-" ]
      [] cls = "Voiced" -> [ voice |-> "+" ]
      [] cls = "Dental" -> [ anterior |-> "+", distributed |-> "+" ]
      [] cls = "Advanced" -> [ front |-> "+", back |-> "-" ]
      [] cls = "Long" -> [ long |-> "+" ]
      [] cls = "Aspirated" -> [ spread_glottis |-> "+", constricted_glottis |-> "-" ]
      [] cls = "Palatalized" ->
           [ dorsal |-> "+", high |-> "+", low |-> "-", front |-> "+", back |-> "-" ]
      [] cls = "Labialized" -> [ labial |-> "+", round |-> "+" ]
      [] cls = "Velarized" ->
           [ dorsal |-> "+", high |-> "+", low |-> "-", front |-> "-", back |-> "+" ]
      [] cls = "Pharyngealized" ->
           [ dorsal |-> "+", high |-> "-", low |-> "+", front |-> "-", back |-> "+" ]
      [] cls = "Nasalized" -> [ nasal |-> "+" ]
      [] cls = "Rhoticity" ->
           [ coronal |-> "+", anterior |-> "+", distributed |-> "+", strident |-> "-" ]
      [] cls = "Ejective" -> [ spread_glottis |-> "-", constricted_glottis |-> "+" ]
      [] cls = "Glottalized" -> [ constricted_glottis |-> "+" ]
      [] cls = "NonSyllabic" -> [ syllabic |-> "-" ]
      [] cls = "Laminal" -> [ distributed |-> "+" ]
      [] OTHER -> EmptyDelta

\* Mutant of get_diacritic: an unregistered form gets the no-op tie bar
\* instead of InvalidDiacritic.
get_diacritic_default(form) ==
    IF form \notin DOMAIN Registry
    THEN [ exc |-> "ok", d |-> "UpTieBar" ]
    ELSE [ exc |-> "ok", d |-> Registry[form] ]

\* DiacriticMetaclass.get_diacritic(raw): InvalidDiacritic for a surface
\* form that is not registered, else an instance of the registered class.
get_diacritic(form) ==
    IF form \notin DOMAIN Registry
    THEN [ exc |-> "InvalidDiacritic", d |-> "" ]
    ELSE [ exc |-> "ok", d |-> Registry[form] ]

\* Mutant of AppendDiacritic: a surface form the list already ends with is
\* not appended again.
AppendDiacritic_once(seg, form) ==
    IF seg.diacritics # <<>> /\ seg.diacritics[Len(seg.diacritics)] = form
    THEN seg
    ELSE [ seg EXCEPT !.diacritics = Append(seg.diacritics, form) ]

\* Mutant of AppendDiacritic: the diacritics list is replaced, not extended.
AppendDiacritic_replace(seg, form) ==
    [ seg EXCEPT !.diacritics = << form >> ]

\* Mutant of SourceAfter: the copy is shallow and shares its diacritics list
\* with the Segment passed, so the append reaches that Segment.
SourceAfter_shared_list(seg, form) ==
    [ seg EXCEPT !.diacritics = Append(seg.diacritics, form) ]

\* The Segment passed to apply_to as the call leaves it: asdict(seg) builds a
\* new list for kwargs['diacritics'], so the slice assignment and the append
\* write to the copy, and no field of seg is assigned.
SourceAfter(seg, form) == seg

\* asdict(seg) with the diacritics list copied and `form` appended.
AppendDiacritic(seg, form) ==
    [ seg EXCEPT !.diacritics = Append(seg.diacritics, form) ]

\* kwargs[k] = v for every item of a delta.
Overwrite(kwargs, delta) ==
    [ name \in DOMAIN kwargs |->
        IF name \in DOMAIN delta THEN delta[name] ELSE kwargs[name] ]

\* Diacritic.apply_to: the kwargs handed to Segment(**kwargs).
DeltaKwargs(cls, seg) == Overwrite(AppendDiacritic(seg, ipa(cls)), changes(cls))

\* Segment(**kwargs) at the end of apply_to: the exception raised (or "ok")
\* and the Segment the caller is left with.
Rebuilt(kwargs, seg) ==
    CHOOSE r \in { IF e = "ok" THEN [ exc |-> "ok", seg |-> kwargs ]
                   ELSE [ exc |-> e, seg |-> seg ] :
                     e \in { post_init(kwargs) } } : TRUE

\* Diacritic.apply_to(seg) of a class that does not override it.  (The
\* kwargs are bound by a set constructor, so they are computed once.)
DiacriticApplyTo(cls, seg) ==
    CHOOSE r \in { Rebuilt(kwargs, seg) : kwargs \in { DeltaKwargs(cls, seg) } } : TRUE

\* Retracted.apply_to(seg): `seg.ipa` is read to extend the diacritics list,
\* and a Segment has no attribute `ipa`, so the call raises AttributeError
\* before any feature is touched.
RetractedApplyTo(seg) == [ exc |-> "AttributeError", seg |-> seg ]

\* d.apply_to(seg) for an instance d of class cls: the exception raised (or
\* "ok") and the Segment returned.
apply_to(cls, seg) ==
    IF cls = "Retracted" THEN RetractedApplyTo(seg)
    ELSE DiacriticApplyTo(cls, seg)

\* ------------------------------------------------------------------------
\* The base-segment table (process.py: FeatureProcessor.__init__)
\* ------------------------------------------------------------------------

FeatureIndex(name) == CHOOSE k \in 1..Len(FeatureOrder) : FeatureOrder[k] = name

\* Segment(ipa, **kwargs) as __init__ calls it for one spreadsheet row: the
\* signs of the row in field order, no diacritics.
Row(base, signs) ==
    [ name \in FeatureNames \cup {"base", "diacritics"} |->
        IF name = "base" THEN base
        ELSE IF name = "diacritics" THEN <<>>
        ELSE signs[FeatureIndex(name)] ]

\* self._base_segments: rows of the feature spreadsheet, keyed by their NFD
\* form.  Field order: syllabic consonantal approximant sonorant continuant
\* delayed_release trill tap dorsal front back high low tense round long
\* overlong nasal coronal anterior distributed strident lateral labial
\* labiodental voice spread_glottis constricted_glottis.
BaseRows ==
    { Row(<<"a">>, << "+","-","+","+","+", "0", "-","-", "+", "-","-","-","+","0",
                      "-","-","-", "-", "-", "0","0","0", "-", "-","-", "+","-","-" >>),
      Row(<<"i">>, << "+","-","+","+","+", "0", "-","-", "+", "+","-","+","-","+",
                      "-","-","-", "-", "-", "0","0","0", "-", "-","-", "+","-","-" >>),
      Row(<<"u">>, << "+","-","+","+","+", "0", "-","-", "+", "-","+","+","-","+",
                      "+","-","-", "-", "-", "0","0","0", "-", "+","-", "+","-","-" >>),
      Row(<<"j">>, << "-","-","+","+","+", "0", "-","-", "+", "+","-","+","-","+",
                      "-","-","-", "-", "-", "0","0","0", "-", "-","-", "+","-","-" >>),
      Row(<<"t">>, << "-","+","-","-","-", "-", "-","-", "-", "0","0","0","0","0",
                      "-","-","-", "-", "+", "+","-","-", "-", "-","-", "-","-","-" >>),
      Row(<<"s">>, << "-","+","-","-","+", "+", "-","-", "-", "0","0","0","0","0",
                      "-","-","-", "-", "+", "+","-","+", "-", "-","-", "-","-","-" >>),
      Row(<<"t", "U0361", "s">>,
                   << "-","+","-","-","-", "+", "-","-", "-", "0","0","0","0","0",
                      "-","-","-", "-", "+", "+","-","+", "-", "-","-", "-","-","-" >>),
      Row(<<"c">>, << "-","+","-","-","-", "-", "-","-", "+", "+","-","+","-","0",
                      "-","-","-", "-", "+", "-","+","-", "-", "-","-", "-","-","-" >>),
      Row(<<"c", "U0327">>,
                   << "-","+","-","-","+", "+", "-","-", "+", "+","-","+","-","0",
                      "-","-","-", "-", "+", "-","+","-", "-", "-","-", "-","-","-" >>),
      Row(<<"k">>, << "-","+","-","-","-", "-", "-","-", "+", "0","0","+","-","0",
                      "-","-","-", "-", "-", "0","0","0", "-", "-","-", "-","-","-" >>),
      Row(<<"n">>, << "-","+","-","+","-", "0", "-","-", "-", "0","0","0","0","0",
                      "-","-","-", "+", "+", "+","-","-", "-", "-","-", "+","-","-" >>),
      Row(<<"l">>, << "-","+","+","+","+", "0", "-","-", "-", "0","0","0","0","0",
                      "-","-","-", "-", "+", "+","-","-", "+", "-","-", "+","-","-" >>),
      Row(<<"r">>, << "-","+","+","+","+", "0", "+","-", "-", "0","0","0","0","0",
                      "-","-","-", "-", "+", "+","-","-", "-", "-","-", "+","-","-" >>),
      Row(<<"h">>, << "-","-","-","-","+", "+", "-","-", "-", "0","0","0","0","0",
                      "-","-","-", "-", "-", "0","0","0", "-", "-","-", "-","+","-" >>) }

_base_segments == [ key \in { row.base : row \in BaseRows } |->
                      CHOOSE row \in BaseRows : row.base = key ]

BaseKeys == DOMAIN _base_segments

\* ------------------------------------------------------------------------
\* State
\* ------------------------------------------------------------------------

VARIABLES
    seg,       \* the Segment the caller holds: <<>> or <<s>>
    exc,       \* what the last call raised: "none" before any call, "ok", or
               \* the exception's name
    call,      \* the last call: its name and arguments
    ret,       \* the values returned by the predicates at the last Classify
    raw_in,    \* process: the literal argument
    raw,       \* process: the NFD-normalized string
    i,         \* process: the cursor
    bases,     \* process: the list of Segments built so far
    pc,        \* process: where the call stands
    result,    \* process: the returned value, or the exception raised
    iters,     \* process: the number of loop iterations begun
    first,     \* the Segment a first process call returned, while its string
               \* is being decomposed again: <<>> or <<s>>
    cache,     \* process: the lru_cache, literal argument -> returned value
    table,     \* the Segments stored in self._base_segments, as they are now
    threads    \* concurrent callers of process: where each stands and what
               \* it got

segvars == << seg, exc, call, ret >>
procvars == << raw_in, raw, i, bases, pc, result, iters, first, cache,
              table, threads >>
vars == << seg, exc, call, ret, raw_in, raw, i, bases, pc, result, iters,
          first, cache, table, threads >>

\* ------------------------------------------------------------------------
\* Segment-level operations
\* ------------------------------------------------------------------------

NoCall == [ op |-> "none" ]

\* The number of threads that call process concurrently.
NumThreads == 2

Threads == 1..NumThreads

\* A thread that has not called process.
ThreadIdle ==
    [ pc |-> "idle", missed |-> FALSE,
      result |-> [ kind |-> "none", value |-> <<>>, exc |-> "none" ] ]

\* The state of the processor variables while no process call is made.
ProcIdle ==
    /\ raw_in = <<>>
    /\ raw = <<>>
    /\ i = 0
    /\ bases = <<>>
    /\ pc = "idle"
    /\ result = [ kind |-> "none", value |-> <<>>, exc |-> "none" ]
    /\ iters = 0
    /\ first = <<>>
    /\ cache = << >>
    /\ table = _base_segments
    /\ threads = [ t \in Threads |-> ThreadIdle ]

\* The state of the segment variables while no Segment call is made.
SegIdle ==
    /\ seg = <<>>
    /\ exc = "none"
    /\ call = NoCall
    /\ ret = "none"

\* Surface forms handed to get_diacritic(...).apply_to by a direct caller:
\* Syllabic, NonSyllabic, the alias of Voiceless, Retracted, Advanced,
\* Palatalized, Pharyngealized, Rhoticity, Laminal, UpTieBar and the ignored
\* FallingTone.
DiacriticInputs ==
    { <<"U0329">>, <<"U032F">>, <<"U030A">>, <<"U0320">>, <<"U031F">>,
      <<"U02B2">>, <<"U02E4">>, <<"U02BD">>, <<"U033B">>, <<"U0361">>,
      <<"U0302">> }

\* The caller builds a Segment from a spreadsheet row with one keyword
\* changed: Segment(base, **kwargs).
Construct ==
    /\ call = NoCall
    /\ \E row \in BaseRows, name \in FeatureNames, value \in {"+", "-", "0"} :
          LET kwargs == [ row EXCEPT ![name] = value ]
              e == post_init(kwargs)
          IN  /\ exc' = e
              /\ seg' = IF e = "ok" THEN << kwargs >> ELSE <<>>
              /\ call' = [ op |-> "Segment", kwargs |-> kwargs ]
    /\ ret' = "none"
    /\ UNCHANGED procvars

\* The last call returned the Segment the caller holds.  (A call that
\* raised and a Classify leave the caller with the Segment it had: every
\* diacritic that could be applied after them is applied before them, with
\* the same outcome.)
HoldsReturned == call.op \in {"Segment", "apply_to"} /\ exc = "ok"

\* The caller applies a registered diacritic to the Segment it holds and
\* keeps the Segment returned: seg = get_diacritic(form).apply_to(seg).
Apply(form) ==
    /\ seg # <<>>
    /\ HoldsReturned
    /\ Len(seg[1].diacritics) < MaxDiacritics
    /\ LET d == get_diacritic(form).d
           r == apply_to(d, seg[1])
       IN  /\ exc' = r.exc
           /\ seg' = << r.seg >>
           /\ call' = [ op |-> "apply_to", form |-> form, d |-> d, src |-> seg[1],
                        src_after |-> SourceAfter(seg[1], ipa(d)) ]
    /\ ret' = "none"
    /\ UNCHANGED procvars

\* The gen_condition-decorated predicates of Segment.
ConditionedPredicates ==
    { "is_trill", "is_tap", "is_round", "is_nasalized", "is_fronted_velar",
      "is_central_velar", "is_back_velar", "is_uvular", "is_pharyngeal" }

\* The natural_class-decorated predicates of Segment.
NaturalClassPredicates ==
    { "is_vowel", "is_glide", "is_liquid", "is_nasal", "is_obstruent",
      "is_stop", "is_affricate", "is_fricative", "is_front", "is_central",
      "is_back", "is_upper_high_vowel", "is_lower_high_vowel",
      "is_upper_mid_vowel", "is_lower_mid_vowel", "is_low_vowel", "is_short",
      "is_long", "is_overlong", "is_lamino_dental", "is_apico_alveolar",
      "is_palato_alveolar", "is_retroflex", "is_spread_glottis",
      "is_constricted_glottis", "is_normal_glottis" }

Predicates == ConditionedPredicates \cup NaturalClassPredicates

\* getattr(seg, p)(): "True", "False" or the name of the exception raised.
CallPredicate(p, s) ==
    CASE p = "is_trill" -> is_trill(s)
      [] p = "is_tap" -> is_tap(s)
      [] p = "is_round" -> is_round(s)
      [] p = "is_nasalized" -> is_nasalized(s)
      [] p = "is_fronted_velar" -> is_fronted_velar(s)
      [] p = "is_central_velar" -> is_central_velar(s)
      [] p = "is_back_velar" -> is_back_velar(s)
      [] p = "is_uvular" -> is_uvular(s)
      [] p = "is_pharyngeal" -> is_pharyngeal(s)
      [] p = "is_vowel" -> BoolStr(is_vowel(s))
      [] p = "is_glide" -> BoolStr(is_glide(s))
      [] p = "is_liquid" -> BoolStr(is_liquid(s))
      [] p = "is_nasal" -> BoolStr(is_nasal(s))
      [] p = "is_obstruent" -> BoolStr(is_obstruent(s))
      [] p = "is_stop" -> BoolStr(is_stop(s))
      [] p = "is_affricate" -> BoolStr(is_affricate(s))
      [] p = "is_fricative" -> BoolStr(is_fricative(s))
      [] p = "is_front" -> BoolStr(is_front(s))
      [] p = "is_central" -> BoolStr(is_central(s))
      [] p = "is_back" -> BoolStr(is_back(s))
      [] p = "is_upper_high_vowel" -> BoolStr(is_upper_high_vowel(s))
      [] p = "is_lower_high_vowel" -> BoolStr(is_lower_high_vowel(s))
      [] p = "is_upper_mid_vowel" -> BoolStr(is_upper_mid_vowel(s))
      [] p = "is_lower_mid_vowel" -> BoolStr(is_lower_mid_vowel(s))
      [] p = "is_low_vowel" -> BoolStr(is_low_vowel(s))
      [] p = "is_short" -> BoolStr(is_short(s))
      [] p = "is_long" -> BoolStr(is_long(s))
      [] p = "is_overlong" -> BoolStr(is_overlong(s))
      [] p = "is_lamino_dental" -> BoolStr(is_lamino_dental(s))
      [] p = "is_apico_alveolar" -> BoolStr(is_apico_alveolar(s))
      [] p = "is_palato_alveolar" -> BoolStr(is_palato_alveolar(s))
      [] p = "is_retroflex" -> BoolStr(is_retroflex(s))
      [] p = "is_spread_glottis" -> BoolStr(is_spread_glottis(s))
      [] p = "is_constricted_glottis" -> BoolStr(is_constricted_glottis(s))
      [] p = "is_normal_glottis" -> BoolStr(is_normal_glottis(s))

\* The caller calls every classification predicate on the Segment it holds,
\* each call on its own; ret records what each call returned or raised.
Classify ==
    /\ seg # <<>>
    /\ call.op # "classify"
    /\ ret' = [ p \in Predicates |-> CallPredicate(p, seg[1]) ]
    /\ call' = [ op |-> "classify" ]
    /\ exc' = IF \E p \in Predicates : ret'[p] = "ConditionNotMet"
              THEN "ConditionNotMet" ELSE "ok"
    /\ UNCHANGED seg
    /\ UNCHANGED procvars

\* The caller drops the Segment it holds.
Discard ==
    /\ call # NoCall
    /\ seg' = <<>>
    /\ exc' = "none"
    /\ call' = NoCall
    /\ ret' = "none"
    /\ UNCHANGED procvars

InitSeg == SegIdle /\ ProcIdle

NextSeg ==
    \/ Construct
    \/ \E form \in DiacriticInputs : Apply(form)
    \/ Classify
    \/ Discard

Spec == InitSeg /\ [][NextSeg]_vars

\* ------------------------------------------------------------------------
\* Strings: unicodedata.normalize('NFD', raw)
\* ------------------------------------------------------------------------

\* Canonical decomposition mapping of a precomposed codepoint.
Decomposition(c) ==
    CASE c = "U00E7" -> << "c", "U0327" >>
      [] c = "U00E3" -> << "a", "U0303" >>
      [] OTHER -> << c >>

\* Canonical combining class of a codepoint (0: a starter).
CombiningClass(c) ==
    CASE c = "U0334" -> 1
      [] c = "U0327" -> 202
      [] c \in { "U0329", "U0330", "U0324", "U0325", "U032C", "U0320", "U032A",
                 "U031F", "U032F", "U033B", "U031E", "U031D", "U0339", "U031C" }
           -> 220
      [] c \in { "U030A", "U0303", "U0302", "U030C", "U0301", "U0304", "U0300",
                 "U0306", "U0308" } -> 230
      [] c = "U031A" -> 232
      [] c = "U035C" -> 233
      [] c = "U0361" -> 234
      [] OTHER -> 0

RECURSIVE Decompose(_)
Decompose(s) ==
    IF s = <<>> THEN <<>> ELSE Decomposition(Head(s)) \o Decompose(Tail(s))

\* One step of the canonical ordering algorithm: exchange an adjacent pair of
\* combining marks that is out of order.
OutOfOrder(s, k) ==
    /\ CombiningClass(s[k + 1]) > 0
    /\ CombiningClass(s[k]) > CombiningClass(s[k + 1])

RECURSIVE CanonicalOrder(_)
CanonicalOrder(s) ==
    IF \E k \in 1..(Len(s) - 1) : OutOfOrder(s, k)
    THEN LET k == CHOOSE j \in 1..(Len(s) - 1) : OutOfOrder(s, j)
         IN  CanonicalOrder([ s EXCEPT ![k] = s[k + 1], ![k + 1] = s[k] ])
    ELSE s

NFD(s) == CanonicalOrder(Decompose(s))

\* ------------------------------------------------------------------------
\* FeatureProcessor.process (process.py) and Nphthong (nphthong.py)
\* ------------------------------------------------------------------------

IsPrefix(p, s) == Len(p) <= Len(s) /\ SubSeq(s, 1, Len(p)) = p

\* get_base(s): self._base_regex tries the keys longest first; no match
\* raises InvalidBaseSegment.
get_base(s) ==
    LET matching == { key \in BaseKeys : IsPrefix(key, s) }
    IN  IF matching = {} THEN [ exc |-> "InvalidBaseSegment", base |-> <<>> ]
        ELSE LET key == CHOOSE k \in matching :
                            \A other \in matching : Len(other) <= Len(k)
             IN  [ exc |-> "ok", base |-> << table[key] >> ]

\* safe_get_diacritic(idx), idx counting from 0: the two-codepoint form is
\* tried first when two codepoints remain.
safe_get_diacritic(s, idx) ==
    LET two == IF idx < Len(s) - 1
               THEN get_diacritic(SubSeq(s, idx + 1, idx + 2))
               ELSE [ exc |-> "InvalidDiacritic", d |-> "" ]
    IN  IF two.exc = "ok" THEN two
        ELSE get_diacritic(SubSeq(s, idx + 1, idx + 1))

\* Mutant of DiacriticLen: the cursor moves on by one codepoint.
DiacriticLen_one(d) == [ exc |-> "ok", n |-> 1 ]

\* Mutant of DiacriticLen: the length of the canonical surface form.
DiacriticLen_of_ipa(d) == [ exc |-> "ok", n |-> Len(ipa(d)) ]

\* Mutant of DiacriticLen: a length of zero.
DiacriticLen_zero(d) == [ exc |-> "ok", n |-> 0 ]

\* len(d) for a Diacritic instance d: no class of diacritic.py defines
\* __len__, so the call raises TypeError.
DiacriticLen(d) == [ exc |-> "TypeError", n |-> 0 ]

\* Mutant of NphthongPostInit: glides are refused.
NphthongPostInit_vowels_only(vowels) ==
    IF \E k \in 1..Len(vowels) : ~ is_vowel(vowels[k])
    THEN "InvalidNphthong" ELSE "ok"

\* Nphthong(vowels).__post_init__.
NphthongPostInit(vowels) ==
    IF \E k \in 1..Len(vowels) : ~ is_vowel(vowels[k]) /\ ~ is_glide(vowels[k])
    THEN "InvalidNphthong" ELSE "ok"

NoResult == [ kind |-> "none", value |-> <<>>, exc |-> "none" ]
Raised(e) == [ kind |-> "exception", value |-> <<>>, exc |-> e ]
Returned(kind, value) == [ kind |-> kind, value |-> value, exc |-> "ok" ]

\* Codepoints of the literal arguments: base letters, the precomposed c with
\* cedilla and a with tilde, the cedilla (part of a base key only), the
\* registered marks ring below, ring above (alias), tilde and tie bar, and
\* the unregistered tilde overlay.
InputCodepoints ==
    { "a", "i", "j", "t", "s", "c", "U00E7", "U00E3", "U0327", "U0325",
      "U030A", "U0303", "U0361", "U0334" }

RECURSIVE StringsUpTo(_)
StringsUpTo(n) ==
    IF n = 0 THEN { <<>> }
    ELSE LET shorter == StringsUpTo(n - 1)
         IN  shorter \cup { Append(s, c) : s \in shorter, c \in InputCodepoints }

Inputs == StringsUpTo(MaxLen)

\* process(argument) up to the loop: the cache lookup of lru_cache, the
\* normalization, the first get_base and the initial cursor.
Enter(argument) ==
    /\ raw_in' = argument
    /\ iters' = 0
    /\ UNCHANGED << cache, table, threads >>
    /\ IF argument \in DOMAIN cache
       THEN /\ result' = cache[argument]
            /\ pc' = "done"
            /\ raw' = <<>>
            /\ bases' = <<>>
            /\ i' = 0
       ELSE LET norm == NFD(argument)
                b == get_base(norm)
            IN  /\ raw' = norm
                /\ IF b.exc = "ok"
                   THEN /\ bases' = b.base
                        /\ i' = Len(b.base[1].base)
                        /\ pc' = "loop"
                        /\ result' = NoResult
                   ELSE /\ bases' = <<>>
                        /\ i' = 0
                        /\ pc' = "failed"
                        /\ result' = Raised(b.exc)

\* A caller calls process(argument).
Call ==
    /\ pc = "idle"
    /\ first' = <<>>
    /\ \E argument \in Inputs : Enter(argument)
    /\ UNCHANGED segvars

\* The try block after d.apply_to returned or raised r: the assignment to
\* bases[-1], then the cursor is to advance by len(d).  The values of pc,
\* result, bases and i after it.
AfterApply(r, d, bs, idx) ==
    IF r.exc # "ok"
    THEN [ pc |-> "failed", result |-> Raised(r.exc), bases |-> bs, i |-> idx ]
    ELSE IF DiacriticLen(d).exc # "ok"
    THEN [ pc |-> "failed", result |-> Raised(DiacriticLen(d).exc),
           bases |-> [ bs EXCEPT ![Len(bs)] = r.seg ], i |-> idx ]
    ELSE [ pc |-> "loop", result |-> NoResult,
           bases |-> [ bs EXCEPT ![Len(bs)] = r.seg ],
           i |-> idx + DiacriticLen(d).n ]

\* The body of the try block for a diacritic instance d.
TryBlock(d, bs, idx) ==
    CHOOSE after \in { AfterApply(r, d, bs, idx) :
                          r \in { apply_to(d, bs[Len(bs)]) } } : TRUE

\* self._base_segments after d.apply_to(s): get_base hands out the stored
\* Segment itself, so while bases[-1] is that object, what apply_to does to
\* its argument is done to the table's entry.
TableAfter(d, s) ==
    IF s.base \in DOMAIN table /\ table[s.base] = s
    THEN [ table EXCEPT ![s.base] = SourceAfter(s, ipa(d)) ]
    ELSE table

\* One iteration of the while loop in which safe_get_diacritic finds a
\* diacritic.
LoopDiacritic ==
    /\ pc = "loop"
    /\ i < Len(raw)
    /\ safe_get_diacritic(raw, i).exc = "ok"
    /\ \E after \in { TryBlock(safe_get_diacritic(raw, i).d, bases, i) } :
           /\ pc' = after.pc
           /\ result' = after.result
           /\ bases' = after.bases
           /\ i' = after.i
    /\ table' = TableAfter(safe_get_diacritic(raw, i).d, bases[Len(bases)])
    /\ iters' = iters + 1
    /\ UNCHANGED << raw_in, raw, first, cache, threads >>
    /\ UNCHANGED segvars

\* One iteration of the while loop in which safe_get_diacritic raises
\* InvalidDiacritic: a new base is matched at the cursor.
LoopBase ==
    /\ pc = "loop"
    /\ i < Len(raw)
    /\ safe_get_diacritic(raw, i).exc = "InvalidDiacritic"
    /\ LET b == get_base(SubSeq(raw, i + 1, Len(raw)))
       IN  IF b.exc = "ok"
           THEN /\ bases' = bases \o b.base
                /\ i' = i + Len(b.base[1].base)
                /\ UNCHANGED << pc, result >>
           ELSE /\ pc' = "failed"
                /\ result' = Raised(b.exc)
                /\ UNCHANGED << bases, i >>
    /\ iters' = iters + 1
    /\ UNCHANGED << raw_in, raw, first, cache, table, threads >>
    /\ UNCHANGED segvars

\* The end of process: a single base is returned as it is, several as an
\* Nphthong; lru_cache stores what is returned.
Return ==
    /\ pc = "loop"
    /\ i >= Len(raw)
    /\ LET e == IF Len(bases) = 1 THEN "ok" ELSE NphthongPostInit(bases)
           res == IF Len(bases) = 1 THEN Returned("Segment", bases)
                  ELSE Returned("Nphthong", bases)
       IN  IF e = "ok"
           THEN /\ pc' = "done"
                /\ result' = res
                /\ cache' = (raw_in :> res) @@ cache
           ELSE /\ pc' = "failed"
                /\ result' = Raised(e)
                /\ UNCHANGED cache
    /\ UNCHANGED << raw_in, raw, i, bases, iters, first, table, threads >>
    /\ UNCHANGED segvars

\* The caller of a process call that returned a Segment decomposes the
\* string form of that Segment: process(str(s)).
Redecompose ==
    /\ pc = "done"
    /\ first = <<>>
    /\ result.kind = "Segment"
    /\ first' = result.value
    /\ Enter(Str(result.value[1]))
    /\ UNCHANGED segvars

InitProc == SegIdle /\ ProcIdle

NextProc ==
    \/ Call
    \/ LoopDiacritic
    \/ LoopBase
    \/ Return
    \/ Redecompose

SpecProc == InitProc /\ [][NextProc]_vars

\* The scheduling of process: a call runs to its return or to its exception
\* without waiting for anything, so its next step is always taken.
SpecProcFair ==
    SpecProc /\ WF_vars(LoopDiacritic \/ LoopBase \/ Return)

\* ------------------------------------------------------------------------
\* Properties
\* ------------------------------------------------------------------------

\* Every Segment the state holds: the caller's, the processor's bases, the
\* returned value and the Segment being decomposed again.
RECURSIVE SeqRange(_)
SeqRange(s) == IF s = <<>> THEN {} ELSE { Head(s) } \cup SeqRange(Tail(s))

Produced ==
    SeqRange(seg) \cup SeqRange(bases) \cup SeqRange(result.value)
        \cup SeqRange(first)

\* The kwargs the last Segment(...) call was made with, for a direct
\* construction and for the rebuild at the end of a delta-based apply_to.
LastKwargs ==
    IF call.op = "Segment" THEN << call.kwargs >>
    ELSE IF call.op = "apply_to" /\ call.d # "Retracted"
         THEN << DeltaKwargs(call.d, call.src) >>
    ELSE <<>>

\* The five partitions of the claim, through the public predicates: TRUE when
\* every partition whose gate holds has exactly one member.
Exclusive(s) ==
    /\ SumTrue(<< is_vowel(s), is_glide(s), is_liquid(s), is_nasal(s),
                  is_obstruent(s) >>) = 1
    /\ is_obstruent(s) =>
         SumTrue(<< is_stop(s), is_affricate(s), is_fricative(s) >>) = 1
    /\ is_vowel(s) =>
         SumTrue(<< is_front(s), is_central(s), is_back(s) >>) = 1
    /\ is_vowel(s) =>
         SumTrue(<< is_upper_high_vowel(s), is_lower_high_vowel(s),
                    is_upper_mid_vowel(s), is_lower_mid_vowel(s),
                    is_low_vowel(s) >>) = 1
    /\ is_coronal(s) =>
         SumTrue(<< is_lamino_dental(s), is_apico_alveolar(s),
                    is_palato_alveolar(s), is_retroflex(s) >>) = 1

\* C1: every Segment that was produced is classified into exactly one member
\* of each of the partitions sonority, obstruent, backness, height and coronal
\* whose gate holds for it; a construction whose feature values pass the
\* feature-level rules but break a partition raises ExclusivityFailure and
\* produces nothing.
C1_Exclusivity ==
    /\ \A s \in Produced : Exclusive(s)
    /\ \A k \in SeqRange(LastKwargs) :
         (exc \notin {"AssertionError", "InvalidSegment"} /\ ~ Exclusive(k))
            => exc = "ExclusivityFailure"

\* C1 witness: apply_to, on a Segment that already carries a diacritic,
\* produced a coronal obstruent (the obstruent and coronal gates are open).
C1_Witness ==
    /\ call.op = "apply_to"
    /\ exc = "ok"
    /\ seg # <<>>
    /\ is_obstruent(seg[1])
    /\ is_coronal(seg[1])
    /\ call.src.diacritics # <<>>

\* The three applicability rules, on the feature values themselves.
Applicable(s) ==
    /\ s.sonorant # "-" => s.delayed_release = "0"
    /\ s.coronal # "+" =>
         (s.anterior = "0" /\ s.distributed = "0" /\ s.strident = "0")
    /\ s.dorsal # "+" =>
         (s.high = "0" /\ s.low = "0" /\ s.back = "0" /\ s.front = "0"
          /\ s.tense = "0")

\* C2: every Segment that was produced has delayed_release unspecified unless
\* sonorant is false, the coronal features unspecified unless coronal is
\* true, and the dorsal features unspecified unless dorsal is true; a
\* construction that breaks one of these raises InvalidSegment.
C2_Applicability ==
    /\ \A s \in Produced : Applicable(s)
    /\ \A k \in SeqRange(LastKwargs) :
         (exc # "AssertionError" /\ ~ Applicable(k)) => exc = "InvalidSegment"

\* C2 witness: a diacritic rebuilt a Segment with a coronal feature set on a
\* non-coronal target, and InvalidSegment was raised.
C2_Witness ==
    /\ call.op = "apply_to"
    /\ call.d = "Laminal"
    /\ call.src.coronal = "-"
    /\ exc = "InvalidSegment"

\* The case of C3: a direct construction of an obstruent with delayed_release
\* unspecified whose other values are allowed and satisfy the applicability
\* rules (tense unspecified, so that no tense rule applies either).
C3_Case ==
    /\ call.op = "Segment"
    /\ call.kwargs.sonorant = "-"
    /\ call.kwargs.delayed_release = "0"
    /\ \A name \in FeatureNames : call.kwargs[name] \in allowed_values(name)
    /\ Applicable(call.kwargs)
    /\ call.kwargs.tense = "0"

\* C3 as stated: constructing a Segment with sonorant false and
\* delayed_release unspecified, the rest satisfying the applicability
\* rules, succeeds.
C3_Original == C3_Case => (exc = "ok" /\ seg = << call.kwargs >>)

\* C3 amended: such a construction never succeeds; no member of the obstruent
\* partition accepts an unspecified delayed_release, so it raises
\* ExclusivityFailure and produces nothing.
C3_ObstruentNeedsDelayedRelease ==
    C3_Case => (exc = "ExclusivityFailure" /\ seg = <<>>)

\* C3 witness: the construction of the claim was attempted and raised
\* ExclusivityFailure.
C3_Witness == C3_Case /\ exc = "ExclusivityFailure"

\* The condition each conditioned predicate is gated on.
GateHolds(p, s) ==
    CASE p \in {"is_trill", "is_tap"} -> is_liquid(s)
      [] p \in {"is_round", "is_nasalized"} -> is_vowel(s)
      [] p \in {"is_fronted_velar", "is_central_velar", "is_back_velar",
                "is_uvular", "is_pharyngeal"} -> is_dorsal(s) /\ ~ is_vowel(s)
      [] p \in {"is_stop", "is_affricate", "is_fricative"} -> is_obstruent(s)
      [] p \in {"is_front", "is_central", "is_back", "is_upper_high_vowel",
                "is_lower_high_vowel", "is_upper_mid_vowel",
                "is_lower_mid_vowel", "is_low_vowel"} -> is_vowel(s)
      [] p \in {"is_lamino_dental", "is_apico_alveolar", "is_palato_alveolar",
                "is_retroflex"} -> is_coronal(s)
      [] OTHER -> TRUE

\* C5: ConditionNotMet never reaches the caller of a classification
\* predicate: on a valid Segment every gated predicate returns a boolean, and
\* returns False when its gating condition does not hold.
C5_NoConditionNotMet ==
    call.op = "classify" =>
        \A p \in Predicates :
            /\ ret[p] \in {"True", "False"}
            /\ ~ GateHolds(p, seg[1]) => ret[p] = "False"

\* C6: applying the retracted diacritic to a valid Segment s yields a Segment
\* whose string is str(s) followed by the retracted surface form and whose
\* features are those of s, except front=false and back=true when s is
\* dorsal, anterior=false and distributed=true when it is not.
C6_Retracted ==
    (call.op = "apply_to" /\ call.d = "Retracted") =>
        /\ exc = "ok"
        /\ seg # << call.src >>
        /\ Str(seg[1]) = Str(call.src) \o ipa("Retracted")
        /\ LET delta == IF call.src.dorsal = "+"
                        THEN [ front |-> "-", back |-> "+" ]
                        ELSE [ anterior |-> "-", distributed |-> "+" ]
           IN  \A name \in FeatureNames :
                   seg[1][name] = IF name \in DOMAIN delta THEN delta[name]
                                  ELSE call.src[name]

\* C7: a delta-based diacritic d applied to a valid Segment s, when the
\* rebuilt Segment passes validation, returns a Segment with the base of s,
\* the diacritics of s followed by d's surface form, every feature of d's
\* delta at the delta's value and every other feature as in s; with an empty
\* delta all 28 features are those of s.
C7_DeltaApplied ==
    (call.op = "apply_to" /\ call.d # "Retracted" /\ exc = "ok") =>
        LET r == seg[1]
            s == call.src
            delta == changes(call.d)
        IN  /\ r.base = s.base
            /\ r.diacritics = s.diacritics \o << ipa(call.d) >>
            /\ \A name \in DOMAIN delta : r[name] = delta[name]
            /\ \A name \in FeatureNames \ DOMAIN delta : r[name] = s[name]
            /\ (call.d \in IgnoredClasses \cup {"UpTieBar", "DownTieBar"}) =>
                   \A name \in FeatureNames : r[name] = s[name]

\* C7 witness: a diacritic with a non-empty delta was applied to a Segment
\* that already carried a diacritic and changed a feature of it.
C7_Witness ==
    /\ call.op = "apply_to"
    /\ call.d # "Retracted"
    /\ exc = "ok"
    /\ call.src.diacritics # <<>>
    /\ \E name \in DOMAIN changes(call.d) : seg[1][name] # call.src[name]

\* C7 second case (not the witness): an empty-delta diacritic was applied.
C7_EmptyDeltaApplied ==
    /\ call.op = "apply_to"
    /\ exc = "ok"
    /\ call.d \in IgnoredClasses \cup {"UpTieBar"}

Terminal == pc \in {"done", "failed"}

\* A codepoint that is neither a registered diacritic surface form nor the
\* first codepoint of a base-segment key.
Unrecognized(c) ==
    /\ << c >> \notin DOMAIN Registry
    /\ \A key \in BaseKeys : key[1] # c

\* The literal argument is a base-segment key followed by one unrecognized
\* codepoint.
BaseThenUnrecognized(s) ==
    /\ Len(s) >= 2
    /\ SubSeq(s, 1, Len(s) - 1) \in BaseKeys
    /\ Unrecognized(s[Len(s)])

\* C4 as stated: process, given a valid base symbol followed by a codepoint
\* that is neither a registered diacritic nor the start of a base key, fails
\* with InvalidDiacritic and returns nothing.
C4_Original ==
    (Terminal /\ BaseThenUnrecognized(raw_in)) => result = Raised("InvalidDiacritic")

\* C4 amended: for such an argument in NFD form whose base and codepoint do
\* not together make a longer base key, the InvalidDiacritic of the lookup is
\* caught by the loop, a base is looked for at the codepoint, and the call
\* fails with InvalidBaseSegment, returning nothing.
C4_UnrecognizedFailsAsBase ==
    (Terminal /\ BaseThenUnrecognized(raw_in) /\ NFD(raw_in) = raw_in
        /\ raw_in \notin BaseKeys)
      => (pc = "failed" /\ result = Raised("InvalidBaseSegment"))

\* C4 witness: process was given a base followed by an unrecognized codepoint
\* and has failed in the base lookup of its loop.
C4_Witness ==
    /\ pc = "failed"
    /\ BaseThenUnrecognized(raw_in)
    /\ NFD(raw_in) = raw_in
    /\ raw_in \notin BaseKeys
    /\ iters = 1
    /\ result = Raised("InvalidBaseSegment")

\* C8: when process returned a Segment s, process(str(s)) returns too, and a
\* Segment with the base and the diacritics of s (so with the same string).
C8_RoundTrip ==
    first # <<>> =>
        /\ pc # "failed"
        /\ pc = "done" =>
             /\ result.kind = "Segment"
             /\ result.value[1].base = first[1].base
             /\ result.value[1].diacritics = first[1].diacritics
             /\ Str(result.value[1]) = Str(first[1])

\* C8 witness: the string of a returned Segment differs from the literal
\* argument (so the second call is not answered from the cache), it was
\* decomposed again, and the second call has returned.
C8_Witness ==
    /\ first # <<>>
    /\ pc = "done"
    /\ raw = Str(first[1])
    /\ iters = 0
    /\ Len(raw) = 2

\* The loop of the current call ran to the end of the string.
LoopCompleted == Terminal /\ bases # <<>> /\ i >= Len(raw)

VowelOrGlide(s) == is_vowel(s) \/ is_glide(s)

C9_InvalidNphthongReached ==
    /\ pc = "failed"
    /\ Len(bases) >= 2
    /\ result = Raised("InvalidNphthong")

\* C10: every process call terminates, by returning or by raising: the
\* cursor starts after the first base, each iteration that does not fail
\* moves it forward by at least one codepoint, the loop is left when the
\* cursor reaches the length of the string, and there are at most as many
\* iterations as codepoints.
C10_Terminates ==
    /\ [](pc = "loop" => (1 <= i /\ i <= Len(raw) /\ iters < Len(raw)))
    /\ [](iters <= Len(raw))
    /\ [][(pc = "loop" /\ pc' = "loop") => (i' >= i + 1 /\ iters' = iters + 1)]_vars
    /\ [][(pc = "loop" /\ pc' = "done") => (i = Len(raw) /\ i' = i)]_vars
    /\ (pc = "loop") ~> Terminal

\* C10 witness: a call has returned after two iterations of its loop.
C10_Witness ==
    /\ pc = "done"
    /\ iters = 2
    /\ i = Len(raw)

\* ------------------------------------------------------------------------
\* Nphthong built directly from a sequence (nphthong.py)
\* ------------------------------------------------------------------------

\* The longest sequence a direct caller hands to Nphthong.
MaxMembers == 2

\* Sequences of Segments of the base-segment table, up to n members.
RECURSIVE MemberSeqsUpTo(_)
MemberSeqsUpTo(n) ==
    IF n = 0 THEN { <<>> }
    ELSE LET shorter == MemberSeqsUpTo(n - 1)
         IN  shorter \cup { Append(vs, _base_segments[key]) :
                               vs \in shorter, key \in BaseKeys }

\* A caller builds Nphthong(vowels) from a sequence of valid Segments and
\* holds the Nphthong when __post_init__ raised nothing.
NphthongDirect ==
    /\ call = NoCall
    /\ \E vowels \in MemberSeqsUpTo(MaxMembers) :
          /\ call' = [ op |-> "Nphthong", vowels |-> vowels ]
          /\ exc' = NphthongPostInit(vowels)
          /\ ret' = IF NphthongPostInit(vowels) = "ok" THEN vowels ELSE "none"
    /\ UNCHANGED seg
    /\ UNCHANGED procvars

NextNphthong == NphthongDirect \/ Discard

SpecNphthong == InitSeg /\ [][NextNphthong]_vars

\* C11: every Nphthong whose construction succeeds has at least two members,
\* each a vowel or a glide; a sequence with fewer than two members, or with a
\* member that is neither, makes the construction fail with InvalidNphthong.
C11_NphthongInvariant ==
    call.op = "Nphthong" =>
        /\ exc = "ok" =>
              /\ Len(ret) >= 2
              /\ \A k \in 1..Len(ret) : VowelOrGlide(ret[k])
        /\ (Len(call.vowels) < 2
              \/ \E k \in 1..Len(call.vowels) : ~ VowelOrGlide(call.vowels[k]))
             => exc = "InvalidNphthong"

\* C11, the part the code keeps: a member that is neither vowel nor glide
\* makes the construction fail, so the members of an Nphthong that was built
\* are all vowels or glides.
C11_MembersVowelOrGlide ==
    call.op = "Nphthong" =>
        (exc = "ok" <=> \A k \in 1..Len(call.vowels) : VowelOrGlide(call.vowels[k]))

\* C12: after any sequence of process calls, returning or raising, every
\* Segment stored in the base-segment table has the base, the 28 feature
\* values and the empty diacritics list it had after initialization: the
\* stored Segment that process passes to apply_to is left as it was.
C12_TableReadOnly ==
    /\ table = _base_segments
    /\ \A key \in DOMAIN table :
          table[key].base = key /\ table[key].diacritics = <<>>

\* C12 witness: process passed a stored Segment to apply_to, which returned
\* a Segment with one diacritic, and the stored Segment is still as it was.
C12_Witness ==
    /\ pc = "failed"
    /\ iters = 1
    /\ bases # <<>>
    /\ Len(bases[Len(bases)].diacritics) = 1
    /\ table[bases[Len(bases)].base] = _base_segments[bases[Len(bases)].base]
    /\ table[bases[Len(bases)].base].diacritics = <<>>

\* C12 for a direct caller of apply_to: the Segment passed is, after the
\* call, what it was before it, whether the call returned or raised.
C12_ArgumentUnchanged ==
    call.op = "apply_to" => call.src_after = call.src

\* ------------------------------------------------------------------------
\* Queries on a Segment: check_features and == (segment.py)
\* ------------------------------------------------------------------------

\* The longest signed feature list a caller hands to check_features.
MaxFv == 2

\* Names in the lists of a caller: two binary features, a ternary one, an
\* attribute that is no feature, and a name a Segment does not have.
QueryNames == { "syllabic", "voice", "tense", "base", "bogus" }

QueryEntries == { << sign, name >> : sign \in {"+", "-", "0"}, name \in QueryNames }

\* The signed feature lists of up to n entries.
RECURSIVE FvUpTo(_)
FvUpTo(n) ==
    IF n = 0 THEN { <<>> }
    ELSE LET shorter == FvUpTo(n - 1)
         IN  shorter \cup { Append(fv, e) : fv \in shorter, e \in QueryEntries }

\* A caller asks check_features(fv) of the Segment it holds.
CheckFeatures ==
    /\ seg # <<>>
    /\ call = NoCall
    /\ \E fv \in FvUpTo(MaxFv) :
          /\ call' = [ op |-> "check_features", fv |-> fv ]
          /\ ret' = check_features(seg[1], fv)
          /\ exc' = IF check_features(seg[1], fv) \in {"True", "False"}
                    THEN "ok" ELSE check_features(seg[1], fv)
    /\ UNCHANGED seg
    /\ UNCHANGED procvars

\* Mutant of SegmentEq: the comparison dataclass would generate, field by
\* field.
SegmentEq_fields(self, other) ==
    IF self = other THEN "True" ELSE "False"

\* Segment.__eq__(other) for another Segment: the two strings are compared.
\* (Anything but a Segment raises TypeError; the callers here pass Segments.)
SegmentEq(self, other) ==
    IF Str(self) = Str(other) THEN "True" ELSE "False"

\* The codepoints of the strings that are hashed, numbered.
HashAlphabet ==
    << "a", "i", "u", "j", "t", "s", "c", "k", "n", "l", "r", "h",
       "U0361", "U0327", "U0329", "U02B2" >>

Ord(c) == CHOOSE k \in 1..Len(HashAlphabet) : HashAlphabet[k] = c

\* hash(str): a function of the codepoints of the string and of nothing
\* else, 16 bits wide.
RECURSIVE StrHash(_)
StrHash(s) ==
    IF s = <<>> THEN 0
    ELSE (31 * StrHash(SubSeq(s, 1, Len(s) - 1)) + Ord(s[Len(s)])) % 65536

\* Segment.__hash__.
SegmentHash(self) == StrHash(Str(self))

\* Surface forms applied to base Segments to obtain Segments with a
\* diacritic: Syllabic and Palatalized.
QueryForms == { <<"U0329">>, <<"U02B2">> }

\* The Segments a caller queries: those of the base-segment table and those
\* apply_to returns for them.
QuerySegments ==
    { _base_segments[key] : key \in BaseKeys }
      \cup { r.seg : r \in { q \in { apply_to(get_diacritic(form).d, _base_segments[key]) :
                                       form \in QueryForms, key \in BaseKeys } :
                               q.exc = "ok" } }

\* Valid Segments with the string of s and one feature set otherwise.
Variants(s) ==
    { k \in { [ s EXCEPT ![name] = value ] :
                name \in {"long", "voice", "nasal"}, value \in {"+", "-"} } :
        post_init(k) = "ok" }

\* A caller compares the Segment it holds with another: seg == other and
\* the two hashes.
Compare ==
    /\ seg # <<>>
    /\ call = NoCall
    /\ \E other \in QuerySegments \cup Variants(seg[1]) :
          /\ call' = [ op |-> "eq", other |-> other ]
          /\ ret' = [ eq |-> SegmentEq(seg[1], other),
                      hash_self |-> SegmentHash(seg[1]),
                      hash_other |-> SegmentHash(other) ]
    /\ exc' = "ok"
    /\ UNCHANGED seg
    /\ UNCHANGED procvars

\* A caller holds one of the Segments and has made no call on it yet.
InitQuery ==
    /\ seg \in { << s >> : s \in QuerySegments }
    /\ exc = "ok"
    /\ call = NoCall
    /\ ret = "none"
    /\ ProcIdle

NextQuery == CheckFeatures \/ Compare

SpecQuery == InitQuery /\ [][NextQuery]_vars

\* The lists C13 is about: every name one of the 28 features, every sign
\* one of "+", "-", "0".
KnownNames(fv) ==
    \A k \in 1..Len(fv) : fv[k][2] \in FeatureNames /\ fv[k][1] \in {"+", "-", "0"}

\* Entry k asks for the value its feature has.
Matches(s, fv, k) == s[fv[k][2]] = fv[k][1]

\* Entry k asks "0" of a binary feature.
ZeroOfBinary(fv, k) == fv[k][1] = "0" /\ fv[k][2] \notin TernaryFeatures

\* C13 as stated: for a valid Segment and a list of known names and signs,
\* check_features returns a boolean, true iff every entry matches, for
\* every combination of sign and feature.
C13_Original ==
    (call.op = "check_features" /\ KnownNames(call.fv)) =>
        /\ ret \in {"True", "False"}
        /\ ret = "True" <=> \A k \in 1..Len(call.fv) : Matches(seg[1], call.fv, k)

\* C13 amended: the same when no entry asks "0" of a binary feature; when
\* one does, the call raises TypeError at the first such entry, unless an
\* entry before it does not match, in which case it returns false.
C13_CheckFeatures ==
    (call.op = "check_features" /\ KnownNames(call.fv)) =>
        LET fv == call.fv
            bad == { k \in 1..Len(fv) : ZeroOfBinary(fv, k) }
        IN  IF bad = {}
            THEN /\ ret \in {"True", "False"}
                 /\ ret = "True" <=> \A k \in 1..Len(fv) : Matches(seg[1], fv, k)
            ELSE LET k == CHOOSE b \in bad : \A o \in bad : b <= o
                 IN  IF \E j \in 1..(k - 1) : ~ Matches(seg[1], fv, j)
                     THEN ret = "False"
                     ELSE ret = "TypeError"

\* C13 witness: a two-entry list of a binary and a ternary feature, the
\* ternary one asked for "0", matched and true was returned.
C13_Witness ==
    /\ call.op = "check_features"
    /\ Len(call.fv) = 2
    /\ call.fv[1][2] = "syllabic"
    /\ call.fv[2] = << "0", "tense" >>
    /\ ret = "True"

\* C13, the case of the amendment: "0" was asked of a binary feature after
\* a matching entry and TypeError was raised.
C13_TypeErrorReached ==
    /\ call.op = "check_features"
    /\ Len(call.fv) = 2
    /\ call.fv[2] = << "0", "voice" >>
    /\ ret = "TypeError"

\* C14: check_features signals an error, and returns no boolean, whenever
\* the list holds a name that is not one of the 28 features, wherever that
\* entry stands and whether or not the other entries match.
C14_UnknownNameIsError ==
    (call.op = "check_features"
        /\ \E k \in 1..Len(call.fv) : call.fv[k][2] \notin FeatureNames)
      => (ret \notin {"True", "False"} /\ exc # "ok")

\* C14, what the code does keep: a name that getattr does not find, in an
\* entry that is reached, raises AttributeError.
C14_FirstEntryUnknown ==
    (call.op = "check_features" /\ call.fv # <<>>
        /\ call.fv[1][2] \notin FeatureNames \cup OtherAttributes)
      => ret = "AttributeError"

\* base followed by the diacritics, one after the other.
RECURSIVE Concatenated(_, _)
Concatenated(base, diacritics) ==
    IF diacritics = <<>> THEN base
    ELSE Concatenated(base \o diacritics[1], Tail(diacritics))

\* C16: two Segments compare equal iff base plus the concatenation of the
\* diacritics is the same string, whatever their feature values, and equal
\* Segments have equal hashes.
C16_EqualityByString ==
    call.op = "eq" =>
        /\ ret.eq \in {"True", "False"}
        /\ ret.eq = "True" <=>
              Concatenated(seg[1].base, seg[1].diacritics)
                = Concatenated(call.other.base, call.other.diacritics)
        /\ ret.eq = "True" => ret.hash_self = ret.hash_other

\* C16 witness: two Segments with the same string and different feature
\* values compared equal.
C16_Witness ==
    /\ call.op = "eq"
    /\ ret.eq = "True"
    /\ seg[1].diacritics # <<>>
    /\ \E name \in FeatureNames : seg[1][name] # call.other[name]

\* C16, the other direction: two Segments with the same feature values and
\* different strings compared unequal.
C16_UnequalReached ==
    /\ call.op = "eq"
    /\ ret.eq = "False"
    /\ \A name \in FeatureNames : seg[1][name] = call.other[name]

\* The last call applied a delta-based diacritic to a Segment that the same
\* diacritic had returned: d.apply_to(d.apply_to(s)).
AppliedTwice ==
    /\ call.op = "apply_to"
    /\ call.d # "Retracted"
    /\ call.src.diacritics # <<>>
    /\ call.src.diacritics[Len(call.src.diacritics)] = ipa(call.d)

\* C15: when d.apply_to(s) succeeded for a delta-based diacritic d, applying
\* d to its result succeeds too, leaves the 28 feature values as they are
\* and makes the diacritics list exactly one entry longer, by d's surface
\* form.
C15_RepeatedApplication ==
    AppliedTwice =>
        /\ exc = "ok"
        /\ \A name \in FeatureNames : seg[1][name] = call.src[name]
        /\ seg[1].base = call.src.base
        /\ seg[1].diacritics = Append(call.src.diacritics, ipa(call.d))
        /\ Str(seg[1]) = Str(call.src) \o ipa(call.d)

\* C15 witness: a diacritic whose delta changed a feature of the base
\* Segment was applied a second time and returned.
C15_Witness ==
    /\ AppliedTwice
    /\ exc = "ok"
    /\ Len(seg[1].diacritics) = 2
    /\ seg[1].diacritics[1] = seg[1].diacritics[2]
    /\ \E name \in DOMAIN changes(call.d) :
          _base_segments[seg[1].base][name] # seg[1][name]

\* ------------------------------------------------------------------------
\* Concurrent callers of process (process.py:128, functools.lru_cache)
\* ------------------------------------------------------------------------

\* What the end of process returns for the list `bs`, or raises.
ReturnValue(bs) ==
    IF Len(bs) = 1 THEN Returned("Segment", bs)
    ELSE IF NphthongPostInit(bs) = "ok" THEN Returned("Nphthong", bs)
    ELSE Raised(NphthongPostInit(bs))

\* The while loop of process from cursor idx on, run to its end: what the
\* call returns or raises.
RECURSIVE RunLoop(_, _, _)
RunLoop(s, bs, idx) ==
    IF idx >= Len(s) THEN ReturnValue(bs)
    ELSE IF safe_get_diacritic(s, idx).exc = "ok"
    THEN LET after == TryBlock(safe_get_diacritic(s, idx).d, bs, idx)
         IN  IF after.pc = "failed" THEN after.result
             ELSE RunLoop(s, after.bases, after.i)
    ELSE LET b == get_base(SubSeq(s, idx + 1, Len(s)))
         IN  IF b.exc = "ok"
             THEN RunLoop(s, bs \o b.base, idx + Len(b.base[1].base))
             ELSE Raised(b.exc)

\* The body of process(argument), run as a whole by one thread: it reads
\* its argument, its locals and the read-only tables.
ProcessBody(argument) ==
    LET norm == NFD(argument)
        b == get_base(norm)
    IN  IF b.exc = "ok" THEN RunLoop(norm, b.base, Len(b.base[1].base))
        ELSE Raised(b.exc)

\* Mutant of CacheStore: the wrapper keeps nothing (a cache of size 0).
CacheStore_nothing(c, key, value) == c

\* The wrapper's cache[key] = result.
CacheStore(c, key, value) == (key :> value) @@ c

\* The longest literal argument of the concurrent calls.
MaxKeyLen == 2

\* The wrapper looks the key up: a hit returns the cached value, a miss goes
\* on to call the function.
ThreadLookup(t) ==
    /\ threads[t].pc = "idle"
    /\ threads' = [ threads EXCEPT ![t] =
                      IF raw_in \in DOMAIN cache
                      THEN [ pc |-> "returned", missed |-> FALSE, result |-> cache[raw_in] ]
                      ELSE [ pc |-> "computing", missed |-> TRUE, result |-> NoResult ] ]
    /\ UNCHANGED << raw_in, raw, i, bases, pc, result, iters, first, cache, table >>
    /\ UNCHANGED segvars

\* The function runs in the thread: an exception leaves the wrapper at
\* once, a value is still to be stored.
ThreadCompute(t) ==
    /\ threads[t].pc = "computing"
    /\ \E r \in { ProcessBody(raw_in) } :
          threads' = [ threads EXCEPT ![t].result = r,
                          ![t].pc = IF r.kind = "exception" THEN "raised" ELSE "storing" ]
    /\ UNCHANGED << raw_in, raw, i, bases, pc, result, iters, first, cache, table >>
    /\ UNCHANGED segvars

\* The wrapper stores the value under the key and returns it.
ThreadStore(t) ==
    /\ threads[t].pc = "storing"
    /\ cache' = CacheStore(cache, raw_in, threads[t].result)
    /\ threads' = [ threads EXCEPT ![t].pc = "returned" ]
    /\ UNCHANGED << raw_in, raw, i, bases, pc, result, iters, first, table >>
    /\ UNCHANGED segvars

\* The threads are about to call process with one literal argument, on a
\* processor whose cache is empty.
InitThreads ==
    /\ SegIdle
    /\ raw_in \in StringsUpTo(MaxKeyLen)
    /\ raw = <<>>
    /\ i = 0
    /\ bases = <<>>
    /\ pc = "idle"
    /\ result = NoResult
    /\ iters = 0
    /\ first = <<>>
    /\ cache = << >>
    /\ table = _base_segments
    /\ threads = [ t \in Threads |-> ThreadIdle ]

NextThreads ==
    \E t \in Threads : ThreadLookup(t) \/ ThreadCompute(t) \/ ThreadStore(t)

SpecThreads == InitThreads /\ [][NextThreads]_vars

\* The stepwise model of process and its body run as a whole agree.
ProcessBodyAgrees == Terminal => result = ProcessBody(raw_in)

AllThreadsDone == \A t \in Threads : threads[t].pc \in {"returned", "raised"}

\* C17 as stated: once all the concurrent calls with the same literal
\* argument are over, they all have the same result, a value or a failure,
\* and the cache holds an entry for the key whose value is that result.
C17_Original ==
    AllThreadsDone =>
        /\ \A t, u \in Threads : threads[t].result = threads[u].result
        /\ raw_in \in DOMAIN cache
        /\ \A t \in Threads : cache[raw_in] = threads[t].result

\* C17 amended: all the calls have the same result; when it is a value, the
\* cache holds the entry key -> that value and no other entry, at the end
\* and from the first store on; when it is a failure, nothing is cached.
C17_SameResultOneEntry ==
    /\ \A t, u \in Threads :
          (threads[t].pc \in {"storing", "returned", "raised"}
             /\ threads[u].pc \in {"storing", "returned", "raised"})
            => threads[t].result = threads[u].result
    /\ DOMAIN cache \subseteq { raw_in }
    /\ \A t \in Threads :
          /\ threads[t].pc = "returned" =>
                (raw_in \in DOMAIN cache /\ cache[raw_in] = threads[t].result)
          /\ threads[t].pc = "raised" => cache = << >>
    /\ AllThreadsDone =>
          \/ cache = << >> /\ \A t \in Threads : threads[t].pc = "raised"
          \/ DOMAIN cache = { raw_in } /\ \A t \in Threads : threads[t].pc = "returned"

\* C17 witness: two calls both missed the cache, both ran the function and
\* both stored, and the cache holds the one value they returned.
C17_Witness ==
    /\ AllThreadsDone
    /\ \A t \in Threads : threads[t].pc = "returned" /\ threads[t].missed
    /\ cache[raw_in].kind = "Nphthong"

\* C17, the case of the amendment: every call failed and the cache is empty.
C17_FailureNotCached ==
    /\ AllThreadsDone
    /\ \A t \in Threads : threads[t].pc = "raised"
    /\ cache = << >>

\* The surface form safe_get_diacritic matches at the cursor: two
\* codepoints when they are a registered form, else one.
MatchedLen ==
    IF i < Len(raw) - 1 /\ SubSeq(raw, i + 1, i + 2) \in DOMAIN Registry
    THEN 2 ELSE 1

DiacriticAtCursor == SubSeq(raw, i + 1, i + MatchedLen) \in DOMAIN Registry

\* C18: at every cursor position after a base, the two-codepoint and then
\* the one-codepoint substring are tried as a diacritic; a registered one is
\* applied to the base started last and to no other, and the cursor moves on
\* by exactly the length of the matched form; a new base is matched there
\* only when neither substring is registered.
C18_DiacriticConsumed ==
    [][ (pc = "loop" /\ i < Len(raw)) =>
          IF DiacriticAtCursor
          THEN LET d == Registry[SubSeq(raw, i + 1, i + MatchedLen)]
                   r == apply_to(d, bases[Len(bases)])
               IN  r.exc = "ok" =>
                      /\ pc' = "loop"
                      /\ i' = i + MatchedLen
                      /\ Len(bases') = Len(bases)
                      /\ bases'[Len(bases)] = r.seg
                      /\ \A k \in 1..(Len(bases) - 1) : bases'[k] = bases[k]
          ELSE \/ pc' = "loop" /\ Len(bases') = Len(bases) + 1
               \/ pc' = "failed" /\ result' = Raised("InvalidBaseSegment")
      ]_vars

\* C18, what the code keeps: a registered form at the cursor is applied to
\* the base started last and no base is added; a base is added only when no
\* form is registered there.
C18_DiacriticBeforeBase ==
    [][ (pc = "loop" /\ i < Len(raw)) =>
          /\ DiacriticAtCursor =>
                /\ Len(bases') = Len(bases)
                /\ \A k \in 1..(Len(bases) - 1) : bases'[k] = bases[k]
                /\ bases'[Len(bases)] \in
                      { bases[Len(bases)],
                        apply_to(Registry[SubSeq(raw, i + 1, i + MatchedLen)],
                                 bases[Len(bases)]).seg }
          /\ Len(bases') > Len(bases) => ~ DiacriticAtCursor
      ]_vars

\* The strings of the Segments of a list, one after the other.
SurfaceOf(bs) == Join([ k \in 1..Len(bs) |-> Str(bs[k]) ])

\* C19: whenever process(raw) returns, the string of its result (of the
\* Segment, or of the members of the Nphthong one after the other) is the
\* NFD form of raw; and at every loop iteration the strings of the bases
\* built so far make up the normalized input up to the cursor.
C19_SurfaceIsNFD ==
    /\ pc = "loop" => SurfaceOf(bases) = SubSeq(raw, 1, i)
    /\ (pc = "done" /\ result.kind \in {"Segment", "Nphthong"}) =>
          SurfaceOf(result.value) = NFD(raw_in)

\* C19 witness: a literal argument that is not in NFD form was decomposed
\* and a Segment was returned whose string is the normalized argument.
C19_Witness ==
    /\ pc = "done"
    /\ result.kind = "Segment"
    /\ first = <<>>
    /\ raw_in # NFD(raw_in)
    /\ Str(result.value[1]) = raw
    /\ raw = NFD(raw_in)

\* C19 in the loop: two bases were built and the cursor stands behind them.
C19_LoopWitness ==
    /\ pc = "loop"
    /\ Len(bases) = 2
    /\ i = Len(raw)
    /\ SurfaceOf(bases) = raw

\* ------------------------------------------------------------------------
\* Construction over the features that decide vowels (segment.py)
\* ------------------------------------------------------------------------

\* The row of the vowel a with the major-class features and dorsal set to
\* any binary value and the dorsal features to any ternary value.
VowelSpace ==
    { [ _base_segments[<< "a" >>] EXCEPT
          !.syllabic = sy, !.consonantal = co, !.sonorant = so,
          !.approximant = ap, !.dorsal = dor, !.front = fr, !.back = bk,
          !.high = hi, !.low = lo, !.tense = tn ] :
        sy \in {"+", "-"}, co \in {"+", "-"}, so \in {"+", "-"},
        ap \in {"+", "-"}, dor \in {"+", "-"},
        fr \in {"+", "-", "0"}, bk \in {"+", "-", "0"},
        hi \in {"+", "-", "0"}, lo \in {"+", "-", "0"},
        tn \in {"+", "-", "0"} }

\* The caller builds a Segment from such keywords: Segment(base, **kwargs).
ConstructFromSpace ==
    /\ call = NoCall
    /\ \E kwargs \in VowelSpace :
          \E e \in { post_init(kwargs) } :
              /\ exc' = e
              /\ seg' = IF e = "ok" THEN << kwargs >> ELSE <<>>
              /\ call' = [ op |-> "Segment", kwargs |-> kwargs ]
    /\ ret' = "none"
    /\ UNCHANGED procvars

NextVowel == ConstructFromSpace \/ Discard

SpecVowel == InitSeg /\ [][NextVowel]_vars

\* Every Segment built for which is_vowel() is true is dorsal and has
\* front, back, high and low specified, front and back not both true, high
\* and low not both true.
VowelsAreDorsal ==
    (call.op = "Segment" /\ exc = "ok" /\ is_vowel(seg[1])) =>
        /\ seg[1].dorsal = "+"
        /\ \A f \in {"front", "back", "high", "low"} : seg[1][f] \in {"+", "-"}
        /\ ~ (seg[1].front = "+" /\ seg[1].back = "+")
        /\ ~ (seg[1].high = "+" /\ seg[1].low = "+")

\* C20 as stated: VowelsAreDorsal, and a syllabic non-consonantal sonorant
\* Segment that is not dorsal is never built: the backness and height
\* exclusivity checks reject it.
C20_Original ==
    /\ VowelsAreDorsal
    /\ (call.op = "Segment" /\ call.kwargs.syllabic = "+"
          /\ call.kwargs.consonantal = "-" /\ call.kwargs.sonorant = "+"
          /\ call.kwargs.dorsal # "+")
         => exc # "ok"

\* C20 amended: VowelsAreDorsal, and a syllabic non-consonantal sonorant
\* approximant Segment (the features of a vowel) that is not dorsal is never
\* built: with its dorsal features unspecified the backness exclusivity
\* check rejects it, with one of them specified the dorsal rule does.
C20_VowelsDorsal ==
    /\ VowelsAreDorsal
    /\ (call.op = "Segment" /\ call.kwargs.syllabic = "+"
          /\ call.kwargs.consonantal = "-" /\ call.kwargs.sonorant = "+"
          /\ call.kwargs.approximant = "+" /\ call.kwargs.dorsal # "+")
         => /\ exc # "ok"
            /\ seg = <<>>
            /\ exc = IF \A f \in {"front", "back", "high", "low", "tense"} :
                            call.kwargs[f] = "0"
                     THEN "ExclusivityFailure" ELSE "InvalidSegment"

\* C20 witness: the keywords of a non-dorsal vowel with its dorsal features
\* unspecified were refused by an exclusivity check.
C20_Witness ==
    /\ call.op = "Segment"
    /\ call.kwargs.syllabic = "+" /\ call.kwargs.consonantal = "-"
    /\ call.kwargs.sonorant = "+" /\ call.kwargs.approximant = "+"
    /\ call.kwargs.dorsal = "-"
    /\ \A f \in {"front", "back", "high", "low", "tense"} : call.kwargs[f] = "0"
    /\ exc = "ExclusivityFailure"

\* C20, the first part: a vowel other than the row's own was built.
C20_VowelBuilt ==
    /\ call.op = "Segment"
    /\ exc = "ok"
    /\ is_vowel(seg[1])
    /\ seg[1] # _base_segments[<< "a" >>]

====
